---------------------------- MODULE Spec2Model ----------------------------
(***************************************************************************)
(* SimilarityCriterion (fairseq/criterions/similarity.py): forward         *)
(* computes the cosine-embedding loss of a batch of sentence pairs and a   *)
(* logging output; reduce_metrics merges the logging outputs of an epoch   *)
(* and logs 'loss', 'nll_loss' and 'AUC'.                                  *)
(*                                                                         *)
(* Real numbers are fixed-point integers in units of 1/Scale: a cosine of  *)
(* 0.28 is 7.  Values handed to metrics.log_scalar are exact fractions.    *)
(***************************************************************************)
EXTENDS Integers, Sequences, FiniteSets, TLC

\* ------------------------------------------------------------------ bounds
MaxBatch == 2        \* examples per sample given to forward
MaxLogs == 2         \* logging outputs per reduce_metrics call

\* ------------------------------------------------------- value domains
Scale == 25
HeadNames == {"similarity", "other"}
MarginVals == {0, 10}
Input0Vals == {1}
Input1Vals == {1, 2, 3}
TargetVals == {1, -1, 0}
TokenVals == {0, 1}

VARIABLES
    classification_head_name,   \* self.classification_head_name
    margin,                     \* configs.cosine_embedding_loss_margin
    result,                     \* outcome of the latest forward call
    logging_outputs,            \* the list handed to reduce_metrics
    metrics,                    \* metrics.log_scalar calls of reduce_metrics
    reduced                     \* locals and outcome of reduce_metrics

vars == <<classification_head_name, margin, result, logging_outputs, metrics, reduced>>

\* --------------------------------------------------------------- helpers
Max(a, b) == IF a >= b THEN a ELSE b

RECURSIVE SumSeq(_)
SumSeq(s) == IF s = <<>> THEN 0 ELSE Head(s) + SumSeq(Tail(s))

RECURSIVE Gcd(_, _)
Gcd(a, b) == IF b = 0 THEN a ELSE Gcd(b, a % b)

Abs(a) == IF a < 0 THEN -a ELSE a

\* the exact fraction n/d, d > 0, in lowest terms
Frac(n, d) ==
    LET g == Gcd(Abs(n), d)
    IN  [num |-> n \div g, den |-> d \div g]

\* ------------------------------------------------------------ the model
\* a model object: whether it has the attribute, and its heads
Models ==
    [has_classification_heads : {FALSE}, classification_heads : {{}}]
    \cup [has_classification_heads : {TRUE}, classification_heads : SUBSET HeadNames]

\* the features the network's head computes for an input sentence
Features(head, x) ==
    IF head = "similarity"
    THEN CASE x = 1 -> <<3, 4>>
           [] x = 2 -> <<-3, 4>>
           [] OTHER -> <<-3, -4>>
    ELSE CASE x = 1 -> <<5, 0>>
           [] x = 2 -> <<0, 5>>
           [] OTHER -> <<3, 4>>

\* model(**net_input, classification_head_name=head): one row of logits per sentence
ModelCall(net_input, head) ==
    [i \in 1..Len(net_input) |-> Features(head, net_input[i])]

HasHeadAttributeOnly(model, name) == model.has_classification_heads

\* hasattr(model, 'classification_heads') and name in model.classification_heads
HasHead(model, name) ==
    /\ model.has_classification_heads
    /\ name \in model.classification_heads

Dot(a, b) == a[1] * b[1] + a[2] * b[2]

Norm(a) == CHOOSE n \in 0..(Abs(a[1]) + Abs(a[2])) : n * n = Dot(a, a)

\* torch.cosine_similarity of two rows (a zero row has similarity 0)
CosineSimilarity(a, b) ==
    IF Norm(a) = 0 \/ Norm(b) = 0 THEN 0
    ELSE (Dot(a, b) * Scale) \div (Norm(a) * Norm(b))


\* ---------------------------------------------------------------- forward
\* the samples forward is given: rows of two inputs and a target, token counts
SamplesOf(n) ==
    [net_input0 : [1..n -> Input0Vals], net_input1 : [1..n -> Input1Vals],
     target : [1..n -> TargetVals], ntokens0 : TokenVals, ntokens1 : TokenVals]

Samples == UNION {SamplesOf(n) : n \in 1..MaxBatch}

\* model.get_targets(sample, [logits0]).view(-1)
GetTargets(sample) == sample.target

\* one term of F.cosine_embedding_loss for cosine c and target t
LossTerm(c, t, m) ==
    IF t = 1 THEN Scale - c
    ELSE IF t = -1 THEN Max(0, c - m)
    ELSE 0

CosineEmbeddingLossMean(logits0, logits1, targets, m) ==
    SumSeq([i \in 1..Len(targets) |->
               LossTerm(CosineSimilarity(logits0[i], logits1[i]), targets[i], m)])
    \div Len(targets)

\* F.cosine_embedding_loss(logits0, logits1, targets, margin=m, reduction='sum')
CosineEmbeddingLoss(logits0, logits1, targets, m) ==
    SumSeq([i \in 1..Len(targets) |->
               LossTerm(CosineSimilarity(logits0[i], logits1[i]), targets[i], m)])

\* torch.cosine_similarity(logits0, logits1, dim=1)
Preds(logits0, logits1) ==
    [i \in 1..Len(logits0) |-> CosineSimilarity(logits0[i], logits1[i])]

\* preds > margin, targets > margin (a target is a whole number, margin is scaled)
PredAbove(preds, i, m) == preds[i] > m
TargetAbove(targets, i, m) == targets[i] * Scale > m

NCorrectNoMask(preds, targets, m) ==
    Cardinality({i \in 1..Len(targets) : PredAbove(preds, i, m) = TargetAbove(targets, i, m)})

\* (((preds > m) == (targets > m)) * (targets > m)).sum()
NCorrect(preds, targets, m) ==
    Cardinality({i \in 1..Len(targets) :
                    /\ PredAbove(preds, i, m) = TargetAbove(targets, i, m)
                    /\ TargetAbove(targets, i, m)})

\* ((preds > m) == (targets > m)).sum()
NCorrectTotal(preds, targets, m) ==
    Cardinality({i \in 1..Len(targets) : PredAbove(preds, i, m) = TargetAbove(targets, i, m)})

\* (preds > m).sum()
NCorrectPred(preds, m) ==
    Cardinality({i \in 1..Len(preds) : PredAbove(preds, i, m)})

\* (targets > m).sum()
NCorrectActual(targets, m) ==
    Cardinality({i \in 1..Len(targets) : TargetAbove(targets, i, m)})

NTokensFirstOnly(sample) == sample.ntokens0

\* sample['ntokens0'] + sample['ntokens1']
NTokens(sample) == sample.ntokens0 + sample.ntokens1

\* the input of the second model call
SecondInput(sample) == sample.net_input1

\* a loss tensor (loss.data) and a plain Python number
Tensor(v) == [tensor |-> TRUE, v |-> v]
Number(v) == [tensor |-> FALSE, v |-> v]

\* the body of forward after its assertion
ForwardRun(head, m, sample) ==
    LET logits0 == ModelCall(sample.net_input0, head)
        logits1 == ModelCall(SecondInput(sample), head)
        targets == GetTargets(sample)
        sample_size == Len(targets)
        loss == CosineEmbeddingLoss(logits0, logits1, targets, m)
        preds == Preds(logits0, logits1)
        logging_output ==
            [loss |-> Tensor(loss),
             ntokens |-> NTokens(sample),
             nsentences |-> sample_size,
             sample_size |-> sample_size,
             ncorrect |-> NCorrect(preds, targets, m),
             ncorrect_total |-> NCorrectTotal(preds, targets, m),
             ncorrect_pred |-> NCorrectPred(preds, m),
             ncorrect_actual |-> NCorrectActual(targets, m),
             preds |-> preds,
             targets |-> targets]
    IN  [status |-> "returned",
         calls |-> <<[net_input |-> sample.net_input0, classification_head_name |-> head],
                     [net_input |-> SecondInput(sample), classification_head_name |-> head]>>,
         loss |-> loss,
         sample_size |-> sample_size,
         logging_output |-> logging_output]

NoResult == [status |-> "none"]

\* ---------------------------------------------------------- reduce_metrics
Keys == {"loss", "ntokens", "nsentences", "sample_size", "ncorrect", "ncorrect_total",
         "ncorrect_pred", "ncorrect_actual", "preds", "targets"}

\* log.get(key, default)
Get(log, key, default) == IF key \in DOMAIN log THEN log[key] ELSE default

\* sum(log.get(key, 0) for log in logging_outputs) of whole numbers
RECURSIVE SumField(_, _)
SumField(L, key) ==
    IF L = <<>> THEN 0 ELSE Get(Head(L), key, 0) + SumField(Tail(L), key)

\* a number plus a tensor is a tensor
Add(a, b) == [tensor |-> a.tensor \/ b.tensor, v |-> a.v + b.v]

\* sum(log.get('loss', 0) for log in logging_outputs)
RECURSIVE LossSum(_)
LossSum(L) ==
    IF L = <<>> THEN Number(0)
    ELSE Add(Get(Head(L), "loss", Number(0)), LossSum(Tail(L)))

DivisionFailsForTensors(a, d) == d = 0

\* a / d raises ZeroDivisionError for a plain number; a tensor gives nan or inf
DivisionFails(a, d) == d = 0 /\ ~a.tensor

\* a / d / math.log(2): a.v / d in units of 1 / (Scale * ln 2); d = 0 is nan or inf
Bits(a, d) == [nats |-> a.v, per |-> d]

\* metrics.log_scalar(key, value, weight, round=round)
LogScalar(key, value, weight, round) ==
    [key |-> key, value |-> value, weight |-> weight, round |-> round]

NllLossLoggedIfFewer(sample_size, ntokens) == sample_size < ntokens

\* if sample_size != ntokens
NllLossLogged(sample_size, ntokens) == sample_size # ntokens

AucKeys == {"ncorrect", "ncorrect_pred", "ncorrect_actual", "ncorrect_total",
            "preds", "targets"}

HasAucKeysAnywhere(L) ==
    /\ Len(L) > 0
    /\ \E i \in 1..Len(L) : AucKeys \subseteq DOMAIN L[i]

\* len(logging_outputs) > 0 and the six keys in logging_outputs[0]
HasAucKeys(L) ==
    /\ Len(L) > 0
    /\ AucKeys \subseteq DOMAIN L[1]

\* chain.from_iterable raises TypeError on the default 0
Iterable(L, key) == \A i \in 1..Len(L) : key \in DOMAIN L[i]

RECURSIVE ChainReversed(_, _)
ChainReversed(L, key) ==
    IF L = <<>> THEN <<>> ELSE ChainReversed(Tail(L), key) \o Head(L)[key]

\* list(itertools.chain.from_iterable([log.get(key, 0) for log in logging_outputs]))
RECURSIVE Chain(_, _)
Chain(L, key) ==
    IF L = <<>> THEN <<>> ELSE Head(L)[key] \o Chain(Tail(L), key)

\* set(targets)
SetOf(s) == {s[i] : i \in 1..Len(s)}

DefaultAucIfFewer(targets) == Cardinality(SetOf(targets)) < 2

\* len(set(targets)) != 2
DefaultAuc(targets) == Cardinality(SetOf(targets)) # 2

\* sklearn's roc_auc_score on two labels: the greater label is the positive class;
\* the share of (positive, negative) pairs ranked correctly, a tie counting half
RocAucScore(targets, preds) ==
    LET top == CHOOSE t \in SetOf(targets) : \A u \in SetOf(targets) : u <= t
        pos == {i \in 1..Len(targets) : targets[i] = top}
        neg == {i \in 1..Len(targets) : targets[i] # top}
        gt == Cardinality({p \in pos \X neg : preds[p[1]] > preds[p[2]]})
        eq == Cardinality({p \in pos \X neg : preds[p[1]] = preds[p[2]]})
    IN  Frac(2 * gt + eq, 2 * Cardinality(pos) * Cardinality(neg))

AucWeightTokens(nsentences, ntokens) == ntokens

\* the weight of the 'AUC' scalar
AucWeight(nsentences, ntokens) == nsentences

\* reduce_metrics(logging_outputs): the scalars logged, the outcome and the locals
ReduceMetricsRun(L) ==
    LET loss_sum == LossSum(L)
        ntokens == SumField(L, "ntokens")
        nsentences == SumField(L, "nsentences")
        sample_size == SumField(L, "sample_size")
        sums == [loss_sum |-> loss_sum, ntokens |-> ntokens,
                 nsentences |-> nsentences, sample_size |-> sample_size]
        loss == <<LogScalar("loss", Bits(loss_sum, sample_size), sample_size, 3)>>
        nll == IF NllLossLogged(sample_size, ntokens)
               THEN Append(loss, LogScalar("nll_loss", Bits(loss_sum, ntokens), ntokens, 3))
               ELSE loss
    IN  IF DivisionFails(loss_sum, sample_size)
        THEN [status |-> "ZeroDivisionError", metrics |-> <<>>, sums |-> sums,
              roc_auc_score |-> <<>>]
        ELSE IF NllLossLogged(sample_size, ntokens) /\ DivisionFails(loss_sum, ntokens)
        THEN [status |-> "ZeroDivisionError", metrics |-> loss, sums |-> sums,
              roc_auc_score |-> <<>>]
        ELSE IF ~HasAucKeys(L)
        THEN [status |-> "ok", metrics |-> nll, sums |-> sums, roc_auc_score |-> <<>>]
        ELSE IF ~Iterable(L, "preds") \/ ~Iterable(L, "targets")
        THEN [status |-> "TypeError", metrics |-> nll, sums |-> sums,
              roc_auc_score |-> <<>>]
        ELSE LET preds == Chain(L, "preds")
                 targets == Chain(L, "targets")
                 auc == IF DefaultAuc(targets) THEN Frac(1, 1)
                        ELSE RocAucScore(targets, preds)
             IN  [status |-> "ok",
                  metrics |-> Append(nll, LogScalar("AUC", auc,
                                                    AucWeight(nsentences, ntokens), 4)),
                  sums |-> sums, preds |-> preds, targets |-> targets,
                  roc_auc_score |-> IF DefaultAuc(targets) THEN <<>>
                                    ELSE <<[y_true |-> targets, y_score |-> preds]>>]

\* logging_outputs_can_be_summed()
LoggingOutputsCanBeSummed == FALSE

\* ----------------------------------------------------------- the epoch
\* the samples of an epoch
EpochSamples ==
    {[net_input0 |-> <<1>>, net_input1 |-> <<1>>, target |-> <<1>>,
      ntokens0 |-> 1, ntokens1 |-> 1],
     [net_input0 |-> <<1>>, net_input1 |-> <<2>>, target |-> <<-1>>,
      ntokens0 |-> 0, ntokens1 |-> 0],
     [net_input0 |-> <<1, 1>>, net_input1 |-> <<2, 1>>, target |-> <<1, -1>>,
      ntokens0 |-> 1, ntokens1 |-> 1],
     [net_input0 |-> <<1>>, net_input1 |-> <<3>>, target |-> <<0>>,
      ntokens0 |-> 1, ntokens1 |-> 0]}

\* the keys a logging output handed to reduce_metrics may lack
MissingKeys ==
    {{}} \cup {{k} : k \in Keys}
    \cup {{"loss", "sample_size"}, {"loss", "sample_size", "preds"}}

\* a logging output without the keys K
Without(log, K) == [k \in (DOMAIN log) \ K |-> log[k]]

NotReduced == [status |-> "none"]

\* a criterion built with the default --classification-head-name
Init ==
    /\ classification_head_name = "similarity"
    /\ margin \in MarginVals
    /\ result = NoResult
    /\ logging_outputs = <<>>
    /\ metrics = <<>>
    /\ reduced = NotReduced

\* a criterion built with any head name
InitForward ==
    /\ classification_head_name \in HeadNames
    /\ margin \in MarginVals
    /\ result = NoResult
    /\ logging_outputs = <<>>
    /\ metrics = <<>>
    /\ reduced = NotReduced

\* forward(model, sample): the assertion, then the two model calls, the loss and
\* the logging output
Forward(model, sample) ==
    /\ reduced.status = "none"
    /\ result.status = "none"
    /\ Len(logging_outputs) < MaxLogs
    /\ IF ~HasHead(model, classification_head_name)
       THEN result' = [status |-> "AssertionError", calls |-> <<>>, model |-> model]
       ELSE LET out == ForwardRun(classification_head_name, margin, sample)
            IN  result' = [status |-> out.status, calls |-> out.calls,
                           model |-> model, sample |-> sample, loss |-> out.loss,
                           sample_size |-> out.sample_size,
                           logging_output |-> out.logging_output]
    /\ UNCHANGED <<classification_head_name, margin, logging_outputs, metrics, reduced>>

\* the caller keeps the logging output forward returned for reduce_metrics;
\* a logging output may reach reduce_metrics without some of its keys
Collect(K) ==
    /\ reduced.status = "none"
    /\ result.status = "returned"
    /\ Len(logging_outputs) < MaxLogs
    /\ logging_outputs' = Append(logging_outputs, Without(result.logging_output, K))
    /\ result' = NoResult
    /\ UNCHANGED <<classification_head_name, margin, metrics, reduced>>

\* the caller drops the outcome of forward (after the assertion failed, it restarts)
Discard ==
    /\ result.status # "none"
    /\ result' = NoResult
    /\ UNCHANGED <<classification_head_name, margin, logging_outputs, metrics, reduced>>

\* reduce_metrics(logging_outputs)
ReduceMetrics ==
    /\ reduced.status = "none"
    /\ result.status = "none"
    /\ LET run == ReduceMetricsRun(logging_outputs)
       IN  /\ metrics' = run.metrics
           /\ reduced' = run
    /\ UNCHANGED <<classification_head_name, margin, result, logging_outputs>>

\* the next epoch starts with no logging outputs and fresh metrics
NewEpoch ==
    /\ reduced.status # "none"
    /\ logging_outputs' = <<>>
    /\ metrics' = <<>>
    /\ reduced' = NotReduced
    /\ UNCHANGED <<classification_head_name, margin, result>>

Next ==
    \/ \E model \in Models, sample \in EpochSamples : Forward(model, sample)
    \/ \E K \in MissingKeys : Collect(K)
    \/ Discard
    \/ ReduceMetrics
    \/ NewEpoch

Spec == Init /\ [][Next]_vars

\* forward alone, over every sample of up to MaxBatch examples
NextForward ==
    \/ \E model \in Models, sample \in Samples : Forward(model, sample)
    \/ Discard

SpecForward == InitForward /\ [][NextForward]_vars


\* ------------------------------------------------------------ the claims
Returned == result.status = "returned"
Reduced == reduced.status # "none"
L == logging_outputs

\* the cosine similarity of example i of a sample under the criterion's head
ExampleCos(sample, i) ==
    CosineSimilarity(Features(classification_head_name, sample.net_input0[i]),
                     Features(classification_head_name, sample.net_input1[i]))

\* the documented cosine-embedding loss of the examples 1..n of a sample
RECURSIVE ExpectedLoss(_, _)
ExpectedLoss(sample, n) ==
    IF n = 0 THEN 0
    ELSE ExpectedLoss(sample, n - 1)
         + (IF sample.target[n] = 1 THEN Scale - ExampleCos(sample, n)
            ELSE IF ExampleCos(sample, n) - margin > 0
                 THEN ExampleCos(sample, n) - margin ELSE 0)

\* the scalars logged under a key, in order
Logged(key) == SelectSeq(metrics, LAMBDA e : e.key = key)
IndexOf(key) == CHOOSE i \in 1..Len(metrics) : metrics[i].key = key

\* the sum of a whole-number field over the entries 1..n, a missing field being 0
RECURSIVE FieldTotal(_, _)
FieldTotal(key, n) ==
    IF n = 0 THEN 0
    ELSE FieldTotal(key, n - 1) + (IF key \in DOMAIN L[n] THEN L[n][key] ELSE 0)

RECURSIVE LossTotal(_)
LossTotal(n) ==
    IF n = 0 THEN 0
    ELSE LossTotal(n - 1) + (IF "loss" \in DOMAIN L[n] THEN L[n]["loss"].v ELSE 0)

\* no entry carries a loss tensor: the summed loss is the plain number 0
PlainLossSum == \A i \in 1..Len(L) : "loss" \notin DOMAIN L[i]

\* the number of examples in the entries before entry i
RECURSIVE Offset(_)
Offset(i) == IF i = 1 THEN 0 ELSE Offset(i - 1) + Len(L[i - 1]["preds"])

FirstHasAucKeys ==
    /\ Len(L) > 0
    /\ \A k \in {"ncorrect", "ncorrect_pred", "ncorrect_actual", "ncorrect_total",
                 "preds", "targets"} : k \in DOMAIN L[1]

LaterLacksList ==
    \E i \in 2..Len(L) : "preds" \notin DOMAIN L[i] \/ "targets" \notin DOMAIN L[i]

\* C1: forward fails its assertion, before any model call and without a triple,
\* exactly when the model has no classification_heads or lacks the named head
C1_AssertionRejectsModelWithoutHead ==
    result.status # "none" =>
        /\ result.status = "AssertionError"
             <=> ~(/\ result.model.has_classification_heads
                   /\ classification_head_name \in result.model.classification_heads)
        /\ result.status = "AssertionError" =>
             /\ result.calls = <<>>
             /\ DOMAIN result \cap {"loss", "sample_size", "logging_output"} = {}
        /\ result.status = "returned" => Len(result.calls) = 2

C1_Witness ==
    /\ result.status = "AssertionError"
    /\ result.model.has_classification_heads
    /\ result.model.classification_heads # {}

\* C2: with targets in {1, -1} the returned loss, also stored under 'loss', is the
\* sum of 1 - cos for target 1 and max(0, cos - margin) for target -1, the logits
\* coming from the same head applied to net_input0 and to net_input1
C2_LossIsCosineEmbeddingLoss ==
    (Returned /\ \A i \in 1..Len(result.sample.target) : result.sample.target[i] \in {1, -1}) =>
        /\ result.loss = ExpectedLoss(result.sample, Len(result.sample.target))
        /\ result.logging_output["loss"].v = result.loss
        /\ result.calls[1].net_input = result.sample.net_input0
        /\ result.calls[2].net_input = result.sample.net_input1
        /\ \A c \in 1..2 : result.calls[c].classification_head_name = classification_head_name

C2_Witness ==
    /\ Returned
    /\ Len(result.sample.target) = 2
    /\ result.sample.target = <<1, -1>>
    /\ ExampleCos(result.sample, 2) > margin
    /\ ExampleCos(result.sample, 1) < Scale
    /\ result.loss > 0

\* C3: the returned triple: sample_size counts the targets, nsentences and
\* sample_size of the logging output equal it, ntokens is ntokens0 + ntokens1,
\* preds and targets have sample_size entries, entry i being example i's
C3_ReturnedTriple ==
    Returned =>
        LET lo == result.logging_output
            n == Len(result.sample.target)
        IN  /\ result.sample_size = n
            /\ lo["nsentences"] = n
            /\ lo["sample_size"] = n
            /\ lo["ntokens"] = result.sample.ntokens0 + result.sample.ntokens1
            /\ Len(lo["preds"]) = n
            /\ Len(lo["targets"]) = n
            /\ \A i \in 1..n :
                 /\ lo["preds"][i] = ExampleCos(result.sample, i)
                 /\ lo["targets"][i] = result.sample.target[i]

C3_Witness ==
    /\ Returned
    /\ result.sample_size = 2
    /\ result.sample.ntokens0 = 1
    /\ result.sample.ntokens1 = 1
    /\ result.logging_output["preds"][1] # result.logging_output["preds"][2]

\* C8: the four threshold counts of a logging output are consistent
C8_CountsConsistent ==
    Returned =>
        LET lo == result.logging_output
            n == result.sample_size
        IN  /\ 0 <= lo["ncorrect"]
            /\ lo["ncorrect"] <= lo["ncorrect_pred"]
            /\ lo["ncorrect"] <= lo["ncorrect_actual"]
            /\ lo["ncorrect_pred"] <= n
            /\ lo["ncorrect_actual"] <= n
            /\ lo["ncorrect_total"]
                 = n - lo["ncorrect_pred"] - lo["ncorrect_actual"] + 2 * lo["ncorrect"]

C8_Witness ==
    /\ Returned
    /\ result.sample_size = 2
    /\ result.logging_output["ncorrect"] = 1
    /\ result.logging_output["ncorrect_total"] = 1
    /\ result.logging_output["ncorrect_pred"] = 2

\* C4: the sums are the sums of the entries' fields, a missing field being 0;
\* the merged preds and targets are the entries' lists in list order, position
\* for position; the logging outputs cannot be summed beforehand
C4_SumsAndConcatenation ==
    Reduced =>
        /\ reduced.sums.loss_sum.v = LossTotal(Len(L))
        /\ reduced.sums.ntokens = FieldTotal("ntokens", Len(L))
        /\ reduced.sums.nsentences = FieldTotal("nsentences", Len(L))
        /\ reduced.sums.sample_size = FieldTotal("sample_size", Len(L))
        /\ "preds" \in DOMAIN reduced =>
             /\ Len(reduced.preds) = Offset(Len(L) + 1)
             /\ Len(reduced.targets) = Offset(Len(L) + 1)
             /\ \A i \in 1..Len(L) : \A j \in 1..Len(L[i]["preds"]) :
                  /\ reduced.preds[Offset(i) + j] = L[i]["preds"][j]
                  /\ reduced.targets[Offset(i) + j] = L[i]["targets"][j]
        /\ ~LoggingOutputsCanBeSummed

C4_Witness ==
    /\ Reduced
    /\ "preds" \in DOMAIN reduced
    /\ Len(L) = 2
    /\ "nsentences" \notin DOMAIN L[2]
    /\ Len(reduced.preds) = 3
    /\ reduced.sums.nsentences = 2
    /\ reduced.targets[1] # reduced.targets[3]

\* C5: on a non-empty list of logging outputs of forward, reduce_metrics logs
\* exactly one 'AUC', after 'loss', weighted by the summed nsentences, which is
\* the length of the concatenated preds
C5_AucReported ==
    (Reduced /\ Len(L) > 0 /\ \A i \in 1..Len(L) : DOMAIN L[i] = Keys) =>
        /\ reduced.status = "ok"
        /\ Len(Logged("AUC")) = 1
        /\ Len(Logged("loss")) = 1
        /\ IndexOf("loss") < IndexOf("AUC")
        /\ Logged("AUC")[1].weight = FieldTotal("nsentences", Len(L))
        /\ Logged("AUC")[1].weight = Len(reduced.preds)

C5_Witness ==
    /\ Reduced
    /\ Len(L) = 2
    /\ \A i \in 1..Len(L) : DOMAIN L[i] = Keys
    /\ Len(Logged("AUC")) = 1
    /\ Logged("AUC")[1].weight = 3
    /\ Len(Logged("nll_loss")) = 1

\* C6: the logged AUC is 1.0 unless the concatenated targets hold exactly two
\* distinct values, and then it is roc_auc_score(targets, preds), the only case
\* in which roc_auc_score is called
C6_AucValue ==
    (Reduced /\ Len(Logged("AUC")) > 0) =>
        LET distinct == Cardinality({reduced.targets[i] : i \in 1..Len(reduced.targets)})
        IN  /\ distinct # 2 =>
                 /\ Logged("AUC")[1].value = [num |-> 1, den |-> 1]
                 /\ reduced.roc_auc_score = <<>>
            /\ distinct = 2 =>
                 /\ Logged("AUC")[1].value = RocAucScore(reduced.targets, reduced.preds)
                 /\ reduced.roc_auc_score
                      = <<[y_true |-> reduced.targets, y_score |-> reduced.preds]>>

C6_Witness ==
    /\ Reduced
    /\ Len(Logged("AUC")) = 1
    /\ Cardinality({reduced.targets[i] : i \in 1..Len(reduced.targets)}) = 3

C6_WitnessTwoClasses ==
    /\ Reduced
    /\ Len(Logged("AUC")) = 1
    /\ Cardinality({reduced.targets[i] : i \in 1..Len(reduced.targets)}) = 2
    /\ Logged("AUC")[1].value = [num |-> 1, den |-> 4]

\* the 'loss' scalar of C7: logged once, loss_sum / sample_size / ln 2, weight sample_size
LossLoggedOnce ==
    /\ Len(Logged("loss")) = 1
    /\ Logged("loss")[1].value = [nats |-> LossTotal(Len(L)), per |-> FieldTotal("sample_size", Len(L))]
    /\ Logged("loss")[1].weight = FieldTotal("sample_size", Len(L))

NllLoggedOnce ==
    /\ Len(Logged("nll_loss")) = 1
    /\ Logged("nll_loss")[1].value = [nats |-> LossTotal(Len(L)), per |-> FieldTotal("ntokens", Len(L))]
    /\ Logged("nll_loss")[1].weight = FieldTotal("ntokens", Len(L))

\* C7 as stated: with a non-zero summed sample_size 'loss' is logged once and
\* 'nll_loss' is logged exactly when sample_size differs from ntokens
C7_AsStated ==
    (Reduced /\ FieldTotal("sample_size", Len(L)) # 0) =>
        /\ LossLoggedOnce
        /\ IF FieldTotal("sample_size", Len(L)) # FieldTotal("ntokens", Len(L))
           THEN NllLoggedOnce
           ELSE Len(Logged("nll_loss")) = 0

\* C7 amended: 'nll_loss' is logged exactly when sample_size differs from ntokens
\* and its division does not fail; with ntokens = 0 and a plain-number loss sum
\* the division raises ZeroDivisionError after 'loss' was logged
C7_LossAndNllLoss ==
    (Reduced /\ FieldTotal("sample_size", Len(L)) # 0) =>
        /\ LossLoggedOnce
        /\ IF FieldTotal("sample_size", Len(L)) = FieldTotal("ntokens", Len(L))
           THEN Len(Logged("nll_loss")) = 0
           ELSE IF FieldTotal("ntokens", Len(L)) = 0 /\ PlainLossSum
           THEN /\ Len(Logged("nll_loss")) = 0
                /\ reduced.status = "ZeroDivisionError"
                /\ Len(metrics) = 1
           ELSE NllLoggedOnce

C7_Witness ==
    /\ Reduced
    /\ FieldTotal("sample_size", Len(L)) = 2
    /\ FieldTotal("ntokens", Len(L)) = 0
    /\ PlainLossSum
    /\ reduced.status = "ZeroDivisionError"

C7_WitnessEqual ==
    /\ Reduced
    /\ FieldTotal("sample_size", Len(L)) = 2
    /\ FieldTotal("ntokens", Len(L)) = 2
    /\ Len(Logged("loss")) = 1
    /\ Len(Logged("nll_loss")) = 0

\* C9 as stated: an empty list, or a summed sample_size of 0, ends in a
\* ZeroDivisionError with nothing logged
C9_AsStated ==
    (Reduced /\ (Len(L) = 0 \/ FieldTotal("sample_size", Len(L)) = 0)) =>
        /\ reduced.status = "ZeroDivisionError"
        /\ metrics = <<>>

\* C9 amended: with a summed sample_size of 0, reduce_metrics ends in a
\* ZeroDivisionError with nothing logged exactly when the summed loss is a plain
\* number (the empty list, or no entry with a loss tensor); with a loss tensor
\* the division gives nan or inf and 'loss' is logged with weight 0
C9_ZeroSampleSize ==
    (Reduced /\ FieldTotal("sample_size", Len(L)) = 0) =>
        IF PlainLossSum
        THEN /\ reduced.status = "ZeroDivisionError"
             /\ metrics = <<>>
        ELSE /\ Len(Logged("loss")) = 1
             /\ metrics[1].key = "loss"
             /\ metrics[1].weight = 0
             /\ metrics[1].value.per = 0

C9_Witness ==
    /\ Reduced
    /\ Len(L) = 2
    /\ FieldTotal("sample_size", Len(L)) = 0
    /\ reduced.status = "ZeroDivisionError"
    /\ metrics = <<>>

C9_WitnessEmpty ==
    /\ Reduced
    /\ Len(L) = 0
    /\ reduced.status = "ZeroDivisionError"

\* C10 as stated: no 'AUC' when the first entry lacks one of the six keys; when
\* it has them and a later entry lacks preds or targets, an error after 'loss'
\* was logged and without 'AUC'
C10_AsStated ==
    Reduced =>
        /\ (Len(L) > 0 /\ ~FirstHasAucKeys) => Len(Logged("AUC")) = 0
        /\ (FirstHasAucKeys /\ LaterLacksList) =>
             /\ reduced.status \in {"TypeError", "ZeroDivisionError"}
             /\ Len(Logged("loss")) = 1
             /\ Len(Logged("AUC")) = 0

\* the loss or nll_loss computation raises before the AUC branch is reached
EarlierDivisionFails ==
    /\ PlainLossSum
    /\ \/ FieldTotal("sample_size", Len(L)) = 0
       \/ /\ FieldTotal("ntokens", Len(L)) = 0
          /\ FieldTotal("sample_size", Len(L)) # 0

\* C10 amended: no 'AUC' when the first entry lacks one of the six keys; when it
\* has them and a later entry lacks preds or targets, reduce_metrics ends in an
\* error without 'AUC': the TypeError of the concatenation after 'loss' was
\* logged, unless the loss or nll_loss division raised ZeroDivisionError first
C10_FirstEntryDecides ==
    Reduced =>
        /\ (Len(L) > 0 /\ ~FirstHasAucKeys) => Len(Logged("AUC")) = 0
        /\ (FirstHasAucKeys /\ LaterLacksList) =>
             /\ Len(Logged("AUC")) = 0
             /\ IF EarlierDivisionFails
                THEN reduced.status = "ZeroDivisionError"
                ELSE /\ reduced.status = "TypeError"
                     /\ Len(Logged("loss")) = 1

C10_Witness ==
    /\ Reduced
    /\ Len(L) = 2
    /\ FirstHasAucKeys
    /\ "targets" \notin DOMAIN L[2]
    /\ reduced.status = "TypeError"
    /\ Len(metrics) = 2

C10_WitnessFirstLacks ==
    /\ Reduced
    /\ Len(L) = 2
    /\ "ncorrect_total" \notin DOMAIN L[1]
    /\ DOMAIN L[2] = Keys
    /\ reduced.status = "ok"
    /\ Len(Logged("AUC")) = 0

=============================================================================
